---- MODULE Spec2Model ----
(***************************************************************************)
(* Model of thallium's pool wrapper (include/thallium/pool.hpp): the       *)
(* generic adapter pool::pool_def<P,U,Palloc,Ualloc> that plugs a user     *)
(* pool type P and unit type U into the native pool interface, and the     *)
(* pool handle class built on it.                                          *)
(*                                                                         *)
(* Spec      custom pools driven through the adapter entry points          *)
(* SpecOwn   pool handles: creation, copy, move, owner scope exit          *)
(* SpecFifo  a built-in FIFO pool fed by producers, drained by a consumer  *)
(* SpecQueue  pushes, pops and removes on custom pools, with histories     *)
(* SpecUnit   units built from native thread and task handles              *)
(* SpecLife   threads, tasks and schedulers on a built-in pool             *)
(* SpecAccess pools of both kinds and every operation on them              *)
(* SpecCreate pool creations that fail next to pools in use                *)
(* SpecLookup operations on pools already freed, next to live ones         *)
(***************************************************************************)
EXTENDS Integers, Sequences, FiniteSets, TLC

\* ---------------------------------------------------------------- bounds
MaxPools == 2
MaxUnits == 3
MaxLog == 3
MaxSchedUnits == 2

Pools == 1..MaxPools
Units == 1..MaxUnits
\* The units the scheduling specification creates and runs.
SchedUnits == 1..MaxSchedUnits

\* A null unit (ABT_UNIT_NULL / nullptr) and a null pool data pointer.
NullUnit == 0
NullData == 0

\* Native thread / task handles; a default-constructed thread or task holds
\* the null handle.
MaxNative == 3
NativeHandles == 1..MaxNative
NullNative == 0

ABT_SUCCESS == "ABT_SUCCESS"
ABT_ERR_INV_POOL == "ABT_ERR_INV_POOL"
ABT_ERR_OTHER == "ABT_ERR_OTHER"

VARIABLES
    \* native pool table
    poolLive,     \* [Pools -> {"none","live","freed","failed"}]
    poolData,     \* [Pools -> 0..MaxPools]  opaque per-pool state (P instance)
    poolAccess,   \* [Pools -> access pattern, "none" before creation]
    poolKind,     \* [Pools -> {"none","custom","fifo","fifo_wait"}]
    staleData,    \* freed pools whose dangling handle still resolves
    nq,           \* [Pools -> Seq(Nat)]  queue of a built-in pool
    numBlocked,   \* [Pools -> Nat]  blocked ULTs the native pool accounts for
    numMigr,      \* [Pools -> Nat]  ULTs migrating to the pool
    \* pool_allocator and the P instances (instance i serves pool i)
    pAlloc,       \* set of P instances currently allocated
    pCons,        \* [Pools -> Nat]  constructions of P instance i
    pDes,         \* [Pools -> Nat]  destructions of P instance i
    pq,           \* [Pools -> Seq(Units)]  container of P instance i
    \* unit_allocator and the U instances
    uAlloc,       \* set of U instances currently allocated
    uCons,        \* [Units -> Nat]
    uDes,         \* [Units -> Nat]
    uType,        \* [Units -> {"none","thread","task"}]
    uInPool,      \* [Units -> BOOLEAN]  U::is_in_pool()
    uNative,      \* [Units -> [thread, task]]  the thread / task U holds
    \* the runtime's view of each unit
    uState,       \* [Units -> unit states]
    uPool,        \* [Units -> 0..MaxPools]  pool the unit is associated with
    uOrigin,      \* [Units -> 0..MaxPools]  pool whose adapter constructed it
    \* observation of the last completed operation, and histories
    last,
    pushLog,      \* [Pools -> Seq(Units)]  units pushed, in order
    popLog,       \* [Pools -> Seq(Units)]  units popped, in order
    removedAny    \* [Pools -> BOOLEAN]     remove() was used on the pool

auxPool == <<poolAccess, poolKind, staleData, nq>>
poolVars == <<poolLive, poolData, numBlocked, numMigr, pAlloc, pCons, pDes, pq,
              auxPool>>
unitVars == <<uAlloc, uCons, uDes, uType, uNative, uInPool, uState, uPool, uOrigin>>
logVars == <<pushLog, popLog, removedAny>>
obsVars == <<last, logVars>>

NoOp == [op |-> "none", pool |-> 0, unit |-> NullUnit, ret |-> ABT_SUCCESS,
         lookup |-> ABT_SUCCESS, thrown |-> FALSE, calledP |-> FALSE]

\* ------------------------------------------------- user types P and U
\* The documented model of P: an in-order container of U*, with its static
\* access_type.
P_access_type == "mpmc"

P_get_size(i) == Len(pq[i])

P_push(i, u) ==
    [pq |-> [pq EXCEPT ![i] = Append(@, u)],
     inPool |-> [uInPool EXCEPT ![u] = TRUE]]

P_pop(i) ==
    IF pq[i] = <<>>
    THEN [unit |-> NullUnit, pq |-> pq, inPool |-> uInPool]
    ELSE [unit |-> Head(pq[i]),
          pq |-> [pq EXCEPT ![i] = Tail(@)],
          inPool |-> [uInPool EXCEPT ![Head(pq[i])] = FALSE]]

P_remove(i, u) ==
    [pq |-> [pq EXCEPT ![i] = SelectSeq(@, LAMBDA x : x # u)],
     inPool |-> [uInPool EXCEPT ![u] = FALSE]]

\* ------------------------------------------------------ TL_POOL_ASSERT
\* A TL_POOL_ASSERT that lets every return code pass.
TL_POOL_ASSERT_silent(ret) == FALSE

\* TL_POOL_ASSERT(call): whether it throws a pool_exception, which it does
\* when the call does not return ABT_SUCCESS.
TL_POOL_ASSERT(ret) == ret # ABT_SUCCESS

\* ------------------------------------------------------ native lookups
\* ABT_pool_get_data: the opaque state of a live pool; an error once the
\* pool is torn down (or was never created).  A handle left dangling by
\* another owner's teardown may still resolve (staleData).
ABT_pool_get_data(p) ==
    IF poolLive[p] = "live" \/ p \in staleData
    THEN [ret |-> ABT_SUCCESS, data |-> poolData[p]]
    ELSE [ret |-> ABT_ERR_INV_POOL, data |-> NullData]

\* ------------------------------------------- adapter: unit entry points
\* thread(t) and task(t) wrap a native handle; native_handle() returns it.
thread(t) == [m_thread |-> t]
task(t) == [m_task |-> t]
native_handle(x) ==
    IF "m_thread" \in DOMAIN x THEN x.m_thread ELSE x.m_task

\* The documented model of U: built from a thread or from a task, it keeps
\* what it was built from; the other member stays default-constructed.
U_from_thread(th) == [thread |-> th, task |-> task(NullNative)]
U_from_task(ta) == [thread |-> thread(NullNative), task |-> ta]
U_get_thread(u) == uNative[u].thread
U_get_task(u) == uNative[u].task

u_get_type(u) == uType[u]

\* A u_get_thread that reads the unit's task member.
u_get_thread_fromTask(u) == native_handle(U_get_task(u))

\* uu->get_thread().native_handle()
u_get_thread(u) == native_handle(U_get_thread(u))

\* uu->get_task().native_handle()
u_get_task(u) == native_handle(U_get_task(u))

u_is_in_pool(u) == uInPool[u]

\* allocate + construct a U from a native thread handle; the new unit's
\* address is u.
u_create_from_thread(u, t) ==
    [alloc |-> uAlloc \cup {u},
     cons |-> [uCons EXCEPT ![u] = @ + 1],
     type |-> [uType EXCEPT ![u] = "thread"],
     native |-> [uNative EXCEPT ![u] = U_from_thread(thread(t))],
     inPool |-> [uInPool EXCEPT ![u] = FALSE]]

u_create_from_task(u, t) ==
    [alloc |-> uAlloc \cup {u},
     cons |-> [uCons EXCEPT ![u] = @ + 1],
     type |-> [uType EXCEPT ![u] = "task"],
     native |-> [uNative EXCEPT ![u] = U_from_task(task(t))],
     inPool |-> [uInPool EXCEPT ![u] = FALSE]]

\* destroy + deallocate, then null the caller's handle.
u_free(u) ==
    [alloc |-> uAlloc \ {u},
     des |-> [uDes EXCEPT ![u] = @ + 1],
     handle |-> NullUnit]

\* ------------------------------------------- adapter: pool entry points
\* allocate + construct a P, register it with ABT_pool_set_data, whose
\* return code setRet is returned as is.
p_init(p, setRet) ==
    [ret |-> setRet,
     alloc |-> pAlloc \cup {p},
     cons |-> [pCons EXCEPT ![p] = @ + 1],
     pq |-> [pq EXCEPT ![p] = <<>>],
     data |-> IF setRet = ABT_SUCCESS
              THEN [poolData EXCEPT ![p] = p] ELSE poolData]

p_get_size(p) ==
    LET r == ABT_pool_get_data(p) IN
    IF r.ret # ABT_SUCCESS
    THEN [thrown |-> TRUE, calledP |-> FALSE, size |-> 0]
    ELSE [thrown |-> FALSE, calledP |-> TRUE, size |-> P_get_size(r.data)]

\* A p_push that resolves the state but never hands the unit to P.
p_push_dropped(p, u) ==
    LET r == ABT_pool_get_data(p) IN
    [thrown |-> r.ret # ABT_SUCCESS, calledP |-> FALSE,
     pq |-> pq, inPool |-> uInPool]

p_push(p, u) ==
    LET r == ABT_pool_get_data(p) IN
    IF r.ret # ABT_SUCCESS
    THEN [thrown |-> TRUE, calledP |-> FALSE, pq |-> pq, inPool |-> uInPool]
    ELSE LET s == P_push(r.data, u) IN
         [thrown |-> FALSE, calledP |-> TRUE, pq |-> s.pq, inPool |-> s.inPool]

\* A p_remove that swallows the lookup's error code.
p_remove_swallow(p, u) ==
    LET r == ABT_pool_get_data(p) IN
    IF r.ret # ABT_SUCCESS
    THEN [ret |-> ABT_SUCCESS, calledP |-> FALSE, pq |-> pq, inPool |-> uInPool]
    ELSE LET s == P_remove(r.data, u) IN
         [ret |-> ABT_SUCCESS, calledP |-> TRUE, pq |-> s.pq, inPool |-> s.inPool]

p_remove(p, u) ==
    LET r == ABT_pool_get_data(p) IN
    IF r.ret # ABT_SUCCESS
    THEN [ret |-> r.ret, calledP |-> FALSE, pq |-> pq, inPool |-> uInPool]
    ELSE LET s == P_remove(r.data, u) IN
         [ret |-> ABT_SUCCESS, calledP |-> TRUE, pq |-> s.pq, inPool |-> s.inPool]

\* A p_pop that takes the newest unit instead of asking P::pop.
p_pop_newest(p) ==
    LET r == ABT_pool_get_data(p) IN
    IF r.ret # ABT_SUCCESS
    THEN [thrown |-> TRUE, calledP |-> FALSE, unit |-> NullUnit,
          pq |-> pq, inPool |-> uInPool]
    ELSE IF pq[r.data] = <<>>
    THEN [thrown |-> FALSE, calledP |-> TRUE, unit |-> NullUnit,
          pq |-> pq, inPool |-> uInPool]
    ELSE LET q == pq[r.data]
             x == q[Len(q)] IN
         [thrown |-> FALSE, calledP |-> TRUE, unit |-> x,
          pq |-> [pq EXCEPT ![r.data] = SubSeq(q, 1, Len(q) - 1)],
          inPool |-> [uInPool EXCEPT ![x] = FALSE]]

\* A p_pop with a policy of its own: it refuses to pop an empty pool
\* instead of asking P::pop.
p_pop_policy(p) ==
    LET r == ABT_pool_get_data(p) IN
    IF r.ret # ABT_SUCCESS
    THEN [thrown |-> TRUE, calledP |-> FALSE, unit |-> NullUnit,
          pq |-> pq, inPool |-> uInPool]
    ELSE IF P_get_size(r.data) = 0
    THEN [thrown |-> TRUE, calledP |-> FALSE, unit |-> NullUnit,
          pq |-> pq, inPool |-> uInPool]
    ELSE LET s == P_pop(r.data) IN
         [thrown |-> FALSE, calledP |-> TRUE, unit |-> s.unit,
          pq |-> s.pq, inPool |-> s.inPool]

p_pop(p) ==
    LET r == ABT_pool_get_data(p) IN
    IF r.ret # ABT_SUCCESS
    THEN [thrown |-> TRUE, calledP |-> FALSE, unit |-> NullUnit,
          pq |-> pq, inPool |-> uInPool]
    ELSE LET s == P_pop(r.data) IN
         [thrown |-> FALSE, calledP |-> TRUE, unit |-> s.unit,
          pq |-> s.pq, inPool |-> s.inPool]

\* A p_free that destroys the P instance but never deallocates it.
p_free_noDealloc(p) ==
    LET r == ABT_pool_get_data(p) IN
    IF r.ret # ABT_SUCCESS
    THEN [ret |-> r.ret, calledP |-> FALSE,
          alloc |-> pAlloc, des |-> pDes, pq |-> pq]
    ELSE [ret |-> ABT_SUCCESS, calledP |-> TRUE, alloc |-> pAlloc,
          des |-> [pDes EXCEPT ![r.data] = @ + 1],
          pq |-> [pq EXCEPT ![r.data] = <<>>]]

\* A p_free that does not look at the lookup's return code and releases
\* the instance the pool was created with.
p_free_unchecked(p) ==
    [ret |-> ABT_SUCCESS, calledP |-> TRUE, alloc |-> pAlloc \ {p},
     des |-> [pDes EXCEPT ![p] = @ + 1],
     pq |-> [pq EXCEPT ![p] = <<>>]]

\* destroy (P::~P() lets go of the container, not of the units in it) and
\* deallocate the P instance.
p_free(p) ==
    LET r == ABT_pool_get_data(p) IN
    IF r.ret # ABT_SUCCESS
    THEN [ret |-> r.ret, calledP |-> FALSE,
          alloc |-> pAlloc, des |-> pDes, pq |-> pq]
    ELSE [ret |-> ABT_SUCCESS, calledP |-> TRUE, alloc |-> pAlloc \ {r.data},
          des |-> [pDes EXCEPT ![r.data] = @ + 1],
          pq |-> [pq EXCEPT ![r.data] = <<>>]]

\* ------------------------------------------------ pool handle queries
\* pool::size(): ABT_pool_get_size, which asks p_get_size.
size(p) == p_get_size(p).size

\* A total_size that asks for the size of the runnable units only.
total_size_runnable(p) == p_get_size(p).size

\* pool::total_size(): ABT_pool_get_total_size, the elements present in the
\* pool including blocked ULTs and migrating ULTs.
total_size(p) == p_get_size(p).size + numBlocked[p] + numMigr[p]

\* ---------------------------------------------------------------- Init
InitPools ==
    /\ poolLive = [p \in Pools |-> "none"]
    /\ poolData = [p \in Pools |-> NullData]
    /\ poolAccess = [p \in Pools |-> "none"]
    /\ poolKind = [p \in Pools |-> "none"]
    /\ staleData = {}
    /\ nq = [p \in Pools |-> <<>>]
    /\ numBlocked = [p \in Pools |-> 0]
    /\ numMigr = [p \in Pools |-> 0]
    /\ pAlloc = {}
    /\ pCons = [p \in Pools |-> 0]
    /\ pDes = [p \in Pools |-> 0]
    /\ pq = [p \in Pools |-> <<>>]

InitUnits ==
    /\ uAlloc = {}
    /\ uCons = [u \in Units |-> 0]
    /\ uDes = [u \in Units |-> 0]
    /\ uType = [u \in Units |-> "none"]
    /\ uNative = [u \in Units |-> [thread |-> thread(NullNative),
                                    task |-> task(NullNative)]]
    /\ uInPool = [u \in Units |-> FALSE]
    /\ uState = [u \in Units |-> "none"]
    /\ uPool = [u \in Units |-> 0]
    /\ uOrigin = [u \in Units |-> 0]

InitObs ==
    /\ last = NoOp
    /\ pushLog = [p \in Pools |-> <<>>]
    /\ popLog = [p \in Pools |-> <<>>]
    /\ removedAny = [p \in Pools |-> FALSE]

\* ------------------------------------------------ pool creation, teardown
\* ABT_pool_create with the adapter's definition: the native pool runs
\* p_init and fails with its code when p_init does.
NativeCreateCustom(p, setRet) ==
    LET r == p_init(p, setRet) IN
    /\ poolLive[p] = "none"
    /\ \A q \in Pools : q < p => poolLive[q] # "none"
    /\ pAlloc' = r.alloc
    /\ pCons' = r.cons
    /\ pq' = r.pq
    /\ poolData' = r.data
    /\ poolLive' = [poolLive EXCEPT ![p] =
                        IF r.ret = ABT_SUCCESS THEN "live" ELSE "failed"]
    /\ poolAccess' = [poolAccess EXCEPT ![p] =
                        IF r.ret = ABT_SUCCESS THEN P_access_type ELSE @]
    /\ poolKind' = [poolKind EXCEPT ![p] =
                        IF r.ret = ABT_SUCCESS THEN "custom" ELSE @]
    /\ UNCHANGED <<numBlocked, numMigr, pDes, staleData, nq>>

\* pool::create<P,U>(): TL_POOL_ASSERT(ABT_pool_create(&def, ...)).
CreateCustom(p, setRet) ==
    /\ NativeCreateCustom(p, setRet)
    /\ last' = [NoOp EXCEPT !.op = "create", !.pool = p, !.ret = setRet,
                            !.thrown = TL_POOL_ASSERT(setRet)]
    /\ UNCHANGED unitVars

\* Units of pool p a scheduler is executing or holding suspended.
InExecution(p) ==
    {u \in Units : uPool[u] = p /\ uState[u] \in {"running", "blocked", "migrating"}}

\* ABT_pool_free of a custom pool: p_free, then the native pool is gone.
NativeFreeCustom(p) ==
    LET r == p_free(p) IN
    /\ pAlloc' = r.alloc
    /\ pDes' = r.des
    /\ pq' = r.pq
    /\ poolLive' = [poolLive EXCEPT ![p] = "freed"]
    /\ UNCHANGED <<poolData, numBlocked, numMigr, pCons, auxPool>>

\* The owner's destructor: pool::destroy() on a non-null handle.  The pool
\* must no longer be in use by a scheduler.
Destroy(p) ==
    /\ poolLive[p] = "live"
    /\ InExecution(p) = {}
    /\ NativeFreeCustom(p)
    /\ last' = [NoOp EXCEPT !.op = "destroy", !.pool = p, !.ret = p_free(p).ret]
    /\ UNCHANGED unitVars

\* ABT_pool_free through a handle that still names a custom pool already
\* torn down: the native free runs p_free once more.
DestroyAgain(p) ==
    /\ poolLive[p] = "freed"
    /\ NativeFreeCustom(p)
    /\ last' = [NoOp EXCEPT !.op = "destroy", !.pool = p, !.ret = p_free(p).ret,
                            !.lookup = ABT_pool_get_data(p).ret,
                            !.calledP = p_free(p).calledP]
    /\ UNCHANGED unitVars

\* pool::size(): TL_POOL_ASSERT(ABT_pool_get_size(m_pool, &s)), which asks
\* p_get_size.
GetSize(p) ==
    LET r == p_get_size(p) IN
    /\ poolLive[p] \in {"live", "freed"}
    /\ last' = [NoOp EXCEPT !.op = "size", !.pool = p,
                            !.lookup = ABT_pool_get_data(p).ret,
                            !.thrown = r.thrown, !.calledP = r.calledP]
    /\ UNCHANGED <<poolVars, unitVars>>

\* --------------------------------------------------------- unit creation
\* The runtime wraps a freshly spawned thread or task of pool p in a unit.
UCreate(p, u, ty, t) ==
    LET r == IF ty = "thread" THEN u_create_from_thread(u, t)
                              ELSE u_create_from_task(u, t) IN
    /\ poolLive[p] = "live"
    /\ uState[u] = "none"
    /\ \A v \in Units : v < u => uState[v] # "none"
    /\ uAlloc' = r.alloc
    /\ uCons' = r.cons
    /\ uType' = r.type
    /\ uNative' = r.native
    /\ uInPool' = r.inPool
    /\ uState' = [uState EXCEPT ![u] = "created"]
    /\ uPool' = [uPool EXCEPT ![u] = p]
    /\ uOrigin' = [uOrigin EXCEPT ![u] = p]
    /\ last' = [NoOp EXCEPT !.op = "u_create", !.pool = p, !.unit = u]
    /\ UNCHANGED uDes
    /\ UNCHANGED poolVars

\* The runtime releases the unit of a terminated thread or task.
UFree(u) ==
    LET r == u_free(u) IN
    /\ uState[u] = "joined"
    /\ uAlloc' = r.alloc
    /\ uDes' = r.des
    /\ uState' = [uState EXCEPT ![u] = "freed"]
    /\ last' = [NoOp EXCEPT !.op = "u_free", !.unit = u]
    /\ UNCHANGED <<uCons, uType, uNative, uInPool, uPool, uOrigin>>
    /\ UNCHANGED poolVars

\* ------------------------------------------------ push / pop / remove
\* pool::push<U>(unit): TL_POOL_ASSERT(ABT_pool_push(m_pool, unit)); the
\* native pool hands the unit to p_push.
push(p, u) == p_push(p, u)

\* pool::pop<U>(): TL_POOL_ASSERT(ABT_pool_pop(m_pool, &u)); return u.
pop(p) == p_pop(p)

\* pool::remove<U>(unit): TL_POOL_ASSERT(ABT_pool_remove(m_pool, unit)):
\* throws when p_remove's code is not ABT_SUCCESS.
remove(p, u) ==
    LET r == p_remove(p, u) IN
    [ret |-> r.ret, thrown |-> (r.ret # ABT_SUCCESS), calledP |-> r.calledP,
     pq |-> r.pq, inPool |-> r.inPool]

\* The unit u enters pool p through push; op names the caller.
EnterPool(p, u, op) ==
    LET r == push(p, u) IN
    /\ pq' = r.pq
    /\ uInPool' = r.inPool
    /\ uState' = IF r.thrown THEN uState ELSE [uState EXCEPT ![u] = "pooled"]
    /\ uPool' = IF r.thrown THEN uPool ELSE [uPool EXCEPT ![u] = p]
    /\ last' = [NoOp EXCEPT !.op = op, !.pool = p, !.unit = u,
                            !.lookup = ABT_pool_get_data(p).ret,
                            !.thrown = r.thrown, !.calledP = r.calledP]
    /\ UNCHANGED <<poolLive, poolData, pAlloc, pCons, pDes, auxPool>>
    /\ UNCHANGED <<uAlloc, uCons, uDes, uType, uNative, uOrigin>>

\* A caller pushes a unit it holds: one just created by the runtime, or one
\* it popped or removed from a pool of the same unit type.
Push(p, u) ==
    /\ poolLive[p] \in {"live", "freed"}
    /\ uState[u] \in {"created", "popped"}
    /\ EnterPool(p, u, "push")
    /\ UNCHANGED <<numBlocked, numMigr>>

Pop(p) ==
    LET r == pop(p) IN
    /\ poolLive[p] \in {"live", "freed"}
    /\ pq' = r.pq
    /\ uInPool' = r.inPool
    /\ uState' = IF r.unit = NullUnit THEN uState
                 ELSE [uState EXCEPT ![r.unit] = "popped"]
    /\ last' = [NoOp EXCEPT !.op = "pop", !.pool = p, !.unit = r.unit,
                            !.lookup = ABT_pool_get_data(p).ret,
                            !.thrown = r.thrown, !.calledP = r.calledP]
    /\ UNCHANGED <<poolLive, poolData, numBlocked, numMigr, pAlloc, pCons, pDes,
                   auxPool>>
    /\ UNCHANGED <<uAlloc, uCons, uDes, uType, uNative, uPool, uOrigin>>

\* remove of a unit the caller pushed into p and has not taken out since.
Remove(p, u) ==
    LET r == remove(p, u) IN
    /\ poolLive[p] \in {"live", "freed"}
    /\ uState[u] = "pooled"
    /\ uPool[u] = p
    /\ pq' = r.pq
    /\ uInPool' = r.inPool
    /\ uState' = IF r.thrown THEN uState ELSE [uState EXCEPT ![u] = "popped"]
    /\ last' = [NoOp EXCEPT !.op = "remove", !.pool = p, !.unit = u,
                            !.ret = r.ret,
                            !.lookup = ABT_pool_get_data(p).ret,
                            !.thrown = r.thrown, !.calledP = r.calledP]
    /\ UNCHANGED <<poolLive, poolData, numBlocked, numMigr, pAlloc, pCons, pDes,
                   auxPool>>
    /\ UNCHANGED <<uAlloc, uCons, uDes, uType, uNative, uPool, uOrigin>>

\* ------------------------------------------------------- unit execution
\* pool::run_unit<U>(unit): a scheduler runs a unit it popped.
RunUnit(u) ==
    /\ uState[u] = "popped"
    /\ poolLive[uPool[u]] = "live"
    /\ uState' = [uState EXCEPT ![u] = "running"]
    /\ last' = NoOp
    /\ UNCHANGED <<uAlloc, uCons, uDes, uType, uNative, uInPool, uPool, uOrigin>>
    /\ UNCHANGED poolVars

\* A running ULT yields: the runtime pushes it back into its pool.
Yield(u) ==
    /\ uState[u] = "running"
    /\ uType[u] = "thread"
    /\ EnterPool(uPool[u], u, "push")
    /\ UNCHANGED <<numBlocked, numMigr>>

\* A running ULT blocks: it stays accounted to its pool as blocked.
Suspend(u) ==
    /\ uState[u] = "running"
    /\ uType[u] = "thread"
    /\ uState' = [uState EXCEPT ![u] = "blocked"]
    /\ numBlocked' = [numBlocked EXCEPT ![uPool[u]] = @ + 1]
    /\ last' = NoOp
    /\ UNCHANGED <<poolLive, poolData, numMigr, pAlloc, pCons, pDes, pq, auxPool>>
    /\ UNCHANGED <<uAlloc, uCons, uDes, uType, uNative, uInPool, uPool, uOrigin>>

\* A blocked ULT is made ready again and pushed into its pool.
Resume(u) ==
    /\ uState[u] = "blocked"
    /\ EnterPool(uPool[u], u, "push")
    /\ numBlocked' = [numBlocked EXCEPT ![uPool[u]] = @ - 1]
    /\ UNCHANGED numMigr

\* A running ULT starts migrating to pool q, which accounts for it until
\* it arrives.
MigrateBegin(u, q) ==
    /\ uState[u] = "running"
    /\ uType[u] = "thread"
    /\ poolLive[q] = "live"
    /\ q # uPool[u]
    /\ uState' = [uState EXCEPT ![u] = "migrating"]
    /\ uPool' = [uPool EXCEPT ![u] = q]
    /\ numMigr' = [numMigr EXCEPT ![q] = @ + 1]
    /\ last' = NoOp
    /\ UNCHANGED <<poolLive, poolData, numBlocked, pAlloc, pCons, pDes, pq,
                   auxPool>>
    /\ UNCHANGED <<uAlloc, uCons, uDes, uType, uNative, uInPool, uOrigin>>

MigrateEnd(u) ==
    /\ uState[u] = "migrating"
    /\ EnterPool(uPool[u], u, "push")
    /\ numMigr' = [numMigr EXCEPT ![uPool[u]] = @ - 1]
    /\ UNCHANGED numBlocked

\* The unit's function returns and the unit is joined.
Finish(u) ==
    /\ uState[u] = "running"
    /\ uState' = [uState EXCEPT ![u] = "joined"]
    /\ last' = NoOp
    /\ UNCHANGED <<uAlloc, uCons, uDes, uType, uNative, uInPool, uPool, uOrigin>>
    /\ UNCHANGED poolVars

\* ============================================================ handles
MaxHandles == 3
Handles == 1..MaxHandles
ABT_POOL_NULL == 0

Access == {"priv", "spsc", "mpsc", "spmc", "mpmc"}
Kind == {"fifo", "fifo_wait"}

VARIABLES
    hKind,        \* [Handles -> {"unused","plain","managed","gone"}]
    m_pool,       \* [Handles -> 0..MaxPools]  pool::m_pool
    freeCalls     \* [Pools -> Nat]  native free calls made on the pool

ownVars == <<hKind, m_pool, freeCalls>>

InitOwn ==
    /\ hKind = [h \in Handles |-> "unused"]
    /\ m_pool = [h \in Handles |-> ABT_POOL_NULL]
    /\ freeCalls = [p \in Pools |-> 0]

\* ABT_pool_create_basic(kind, access, automatic = ABT_FALSE, &p)
NativeCreateBasic(p, k, a) ==
    /\ poolLive[p] = "none"
    /\ poolLive' = [poolLive EXCEPT ![p] = "live"]
    /\ poolKind' = [poolKind EXCEPT ![p] = k]
    /\ poolAccess' = [poolAccess EXCEPT ![p] = a]
    /\ nq' = [nq EXCEPT ![p] = <<>>]
    /\ UNCHANGED <<poolData, numBlocked, numMigr, pAlloc, pCons, pDes, pq,
                   staleData>>

\* pool::create(access a, kind k): the kind goes first in the native call.
create(p, a, k) == NativeCreateBasic(p, k, a)

\* pool(const pool&) = default
copy_ctor(dst, src) == [m_pool EXCEPT ![dst] = m_pool[src]]

\* pool(pool&& other): take the handle, null the source.
move_ctor(dst, src) ==
    [m_pool EXCEPT ![dst] = m_pool[src], ![src] = ABT_POOL_NULL]

\* pool& operator=(pool&& other)
move_assign(dst, src) ==
    IF dst = src THEN m_pool
    ELSE [m_pool EXCEPT ![dst] = m_pool[src], ![src] = ABT_POOL_NULL]

\* ABT_pool_free(&m_pool) on the pool a handle names: a custom pool runs
\* p_free; the handle passed in is nulled.
NativeFree(p) ==
    /\ freeCalls' = [freeCalls EXCEPT ![p] = @ + 1]
    /\ IF poolKind[p] = "custom"
       THEN NativeFreeCustom(p)
       ELSE /\ poolLive' = [poolLive EXCEPT ![p] = "freed"]
            /\ UNCHANGED <<poolData, numBlocked, numMigr, pAlloc, pCons, pDes,
                           pq, auxPool>>

\* pool::destroy(): if(m_pool != ABT_POOL_NULL) ABT_pool_free(&m_pool);
destroy(h) ==
    IF m_pool[h] # ABT_POOL_NULL
    THEN /\ NativeFree(m_pool[h])
         /\ m_pool' = [m_pool EXCEPT ![h] = ABT_POOL_NULL]
    ELSE UNCHANGED <<poolVars, m_pool, freeCalls>>

FreshPool(p) ==
    poolLive[p] = "none" /\ \A q \in Pools : q < p => poolLive[q] # "none"

FreshHandle(h) ==
    hKind[h] = "unused" /\ \A g \in Handles : g < h => hKind[g] # "unused"

\* Return codes of ABT_pool_create_basic: it fails when it cannot allocate
\* the pool.
ABT_ERR_MEM == "ABT_ERR_MEM"
CreateBasicRet == {ABT_SUCCESS, ABT_ERR_MEM}

\* pool::create(access a, kind k) with the native call returning ret:
\* TL_POOL_ASSERT(ABT_pool_create_basic(...)); return make_managed<pool>(p).
CreateBuiltin(p, a, k, ret) ==
    /\ FreshPool(p)
    /\ IF ret = ABT_SUCCESS
       THEN create(p, a, k)
       ELSE /\ poolLive' = [poolLive EXCEPT ![p] = "failed"]
            /\ UNCHANGED <<poolData, numBlocked, numMigr, pAlloc, pCons, pDes,
                           pq, auxPool>>
    /\ last' = [NoOp EXCEPT !.op = "create", !.pool = p, !.ret = ret,
                            !.thrown = TL_POOL_ASSERT(ret)]

\* managed<pool> mp = pool::create(a, k);
HCreateBuiltin(h, p, a, k) ==
    /\ FreshHandle(h)
    /\ FreshPool(p)
    /\ create(p, a, k)
    /\ hKind' = [hKind EXCEPT ![h] = "managed"]
    /\ m_pool' = [m_pool EXCEPT ![h] = p]
    /\ UNCHANGED freeCalls

\* managed<pool> mp = pool::create<P,U>();
HCreateCustom(h, p, setRet) ==
    /\ FreshHandle(h)
    /\ FreshPool(p)
    /\ NativeCreateCustom(p, setRet)
    /\ hKind' = IF setRet = ABT_SUCCESS
                THEN [hKind EXCEPT ![h] = "managed"] ELSE hKind
    /\ m_pool' = IF setRet = ABT_SUCCESS
                 THEN [m_pool EXCEPT ![h] = p] ELSE m_pool
    /\ UNCHANGED freeCalls

\* pool q(*mp);  a plain handle copied from any handle
HCopy(dst, src) ==
    /\ FreshHandle(dst)
    /\ hKind[src] \in {"plain", "managed"}
    /\ m_pool' = copy_ctor(dst, src)
    /\ hKind' = [hKind EXCEPT ![dst] = "plain"]
    /\ UNCHANGED <<poolVars, freeCalls>>

\* pool q(std::move(other)), or an owner moved into a new owner
HMoveConstruct(dst, src, owner) ==
    /\ FreshHandle(dst)
    /\ hKind[src] \in {"plain", "managed"}
    /\ owner => hKind[src] = "managed"
    /\ m_pool' = move_ctor(dst, src)
    /\ hKind' = [hKind EXCEPT ![dst] = IF owner THEN "managed" ELSE "plain"]
    /\ UNCHANGED <<poolVars, freeCalls>>

\* a = std::move(b) between two handles in scope
HMoveAssign(dst, src) ==
    /\ hKind[dst] \in {"plain", "managed"}
    /\ hKind[src] \in {"plain", "managed"}
    /\ m_pool' = move_assign(dst, src)
    /\ UNCHANGED <<hKind, poolVars, freeCalls>>

\* A handle leaves scope (normally or by unwinding): ~pool() does nothing,
\* an owner's destructor calls destroy().
HScopeExit(h) ==
    /\ hKind[h] \in {"plain", "managed"}
    /\ hKind' = [hKind EXCEPT ![h] = "gone"]
    /\ IF hKind[h] = "managed"
       THEN destroy(h)
       ELSE UNCHANGED <<poolVars, m_pool, freeCalls>>

\* The memory of a torn down pool that a handle still names may go on
\* looking like a pool.
HStale(p) ==
    /\ poolLive[p] = "freed"
    /\ p \notin staleData
    /\ \E h \in Handles : hKind[h] \in {"plain", "managed"} /\ m_pool[h] = p
    /\ staleData' = staleData \cup {p}
    /\ UNCHANGED <<poolLive, poolData, numBlocked, numMigr, pAlloc, pCons, pDes,
                   pq, poolAccess, poolKind, nq>>
    /\ UNCHANGED ownVars

\* ===================================================== built-in FIFO pool
NumProducers == 2
PerProducer == 2
Producers == 1..NumProducers

VARIABLES
    fPushed,      \* [Producers -> 0..PerProducer]  units each producer pushed
    fPushLog,     \* units in the order their pushes completed
    fPopLog       \* units in the order the consumer received them

fifoVars == <<fPushed, fPushLog, fPopLog>>

InitFifo ==
    /\ fPushed = [i \in Producers |-> 0]
    /\ fPushLog = <<>>
    /\ fPopLog = <<>>

\* The k-th unit of producer i.
UnitOf(i, k) == (i - 1) * PerProducer + k

MultiProducer(a) == a \in {"mpsc", "mpmc"}

\* The native FIFO discipline of a built-in pool.
ABT_pool_push_basic(p, u) == [nq EXCEPT ![p] = Append(@, u)]

ABT_pool_pop_basic(p) ==
    IF poolLive[p] # "live"
    THEN [ret |-> ABT_ERR_INV_POOL, unit |-> NullUnit, nq |-> nq]
    ELSE IF nq[p] = <<>>
    THEN [ret |-> ABT_SUCCESS, unit |-> NullUnit, nq |-> nq]
    ELSE [ret |-> ABT_SUCCESS, unit |-> Head(nq[p]),
          nq |-> [nq EXCEPT ![p] = Tail(@)]]

\* task::create_on_pool / thread::create_on_pool(m_pool, forward_work_unit,
\* fp): the native create call makes a tasklet / a ULT that will run
\* forward_work_unit(fp) and pushes it into the pool.
task_create_on_pool(p, u) == [nq |-> ABT_pool_push_basic(p, u), kind |-> "task"]
thread_create_on_pool(p, u) == [nq |-> ABT_pool_push_basic(p, u), kind |-> "thread"]

\* A make_task that wraps the callable but never creates the task.
make_task_dropped(p, u) == [nq |-> nq, kind |-> "task"]

\* A make_task that creates a ULT where a tasklet was asked for.
make_task_asThread(p, u) == thread_create_on_pool(p, u)

\* pool::make_thread(f): fp = new std::function(f);
\* thread::create_on_pool(m_pool, forward_work_unit, fp).
make_thread(p, u) == thread_create_on_pool(p, u)

\* pool::make_task(f): fp = new std::function(f);
\* task::create_on_pool(m_pool, forward_work_unit, fp).
make_task(p, u) == task_create_on_pool(p, u)

\* A pop that reports the unit at the head without taking it.
pop_basic_peek(p) ==
    LET r == ABT_pool_pop_basic(p) IN
    [thrown |-> (r.ret # ABT_SUCCESS), unit |-> r.unit, nq |-> nq]

\* pool::pop<U>() on a built-in pool.
pop_basic(p) ==
    LET r == ABT_pool_pop_basic(p) IN
    [thrown |-> (r.ret # ABT_SUCCESS), unit |-> r.unit, nq |-> r.nq]

FCreate(p, a, k) ==
    /\ \A q \in Pools : poolLive[q] = "none"
    /\ FreshPool(p)
    /\ create(p, a, k)
    /\ UNCHANGED fifoVars

\* Producer i pushes its next unit.  A second producer only pushes into a
\* pool whose access pattern admits several producers.
FPush(p, i) ==
    /\ poolLive[p] = "live"
    /\ fPushed[i] < PerProducer
    /\ i # 1 => MultiProducer(poolAccess[p])
    /\ nq' = make_task(p, UnitOf(i, fPushed[i] + 1)).nq
    /\ fPushed' = [fPushed EXCEPT ![i] = @ + 1]
    /\ fPushLog' = Append(fPushLog, UnitOf(i, fPushed[i] + 1))
    /\ UNCHANGED fPopLog
    /\ UNCHANGED <<poolLive, poolData, numBlocked, numMigr, pAlloc, pCons, pDes,
                   pq, poolAccess, poolKind, staleData>>

\* The single consumer pops; an empty pool yields a null unit.
FPop(p) ==
    LET r == pop_basic(p) IN
    /\ poolLive[p] = "live"
    /\ nq' = r.nq
    /\ fPopLog' = IF r.unit = NullUnit THEN fPopLog ELSE Append(fPopLog, r.unit)
    /\ UNCHANGED <<fPushed, fPushLog>>
    /\ UNCHANGED <<poolLive, poolData, numBlocked, numMigr, pAlloc, pCons, pDes,
                   pq, poolAccess, poolKind, staleData>>

\* ============================== threads and tasks made on a built-in pool
MaxWork == 2
MaxArm == 2
MaxScheds == 1
MaxWrappers == 2
Work == 1..MaxWork
Scheds == 1..MaxScheds

\* The primary scheduler of the execution stream.
MainSched == 0

ABT_ERR_INV_THREAD == "ABT_ERR_INV_THREAD"
ABT_ERR_INV_SCHED == "ABT_ERR_INV_SCHED"

VARIABLES
    wKind,        \* [Work -> {"none","thread","task"}]  kind of the native unit
    wMade,        \* [Work -> {"none","thread","task"}]  make_thread or make_task
    wState,       \* [Work -> {"none","pooled","running","ready","blocked","joined"}]
    wArmed,       \* [Work -> Nat]  callables the unit was armed with so far
    wCalls,       \* [Work -> Nat]  calls of those callables
    fpOut,        \* [Work -> Int]  callable wrappers allocated and not deleted
    wRunner,      \* [Work -> scheduler]  scheduler that last ran the unit
    schedStack,   \* schedulers of the execution stream, the running one last
    sState        \* [Scheds -> {"idle","queued","running","done"}]

lifeVars == <<wKind, wMade, wState, wArmed, wCalls, fpOut, wRunner, schedStack,
              sState>>

InitLife ==
    /\ wKind = [w \in Work |-> "none"]
    /\ wMade = [w \in Work |-> "none"]
    /\ wState = [w \in Work |-> "none"]
    /\ wArmed = [w \in Work |-> 0]
    /\ wCalls = [w \in Work |-> 0]
    /\ fpOut = [w \in Work |-> 0]
    /\ wRunner = [w \in Work |-> MainSched]
    /\ schedStack = <<MainSched>>
    /\ sState = [x \in Scheds |-> "idle"]

\* A scheduler travels through a pool as a unit of its own.
SchedUnit(x) == MaxWork + x
IsSched(x) == x > MaxWork
SchedOf(x) == x - MaxWork

Top(st) == st[Len(st)]
Front(st) == SubSeq(st, 1, Len(st) - 1)

\* The execution stream runs at most one unit at a time.
Idle == \A w \in Work : wState[w] # "running"

\* ABT_thread_revive / ABT_task_revive(pool, fn, arg, &handle): a unit that
\* has terminated (been joined) is given the new function and pushed into
\* the pool; any other unit is refused.
ABT_thread_revive(p, w) ==
    IF wState[w] = "joined"
    THEN [ret |-> ABT_SUCCESS, nq |-> ABT_pool_push_basic(p, w),
          state |-> [wState EXCEPT ![w] = "pooled"],
          armed |-> [wArmed EXCEPT ![w] = @ + 1]]
    ELSE [ret |-> ABT_ERR_INV_THREAD, nq |-> nq, state |-> wState,
          armed |-> wArmed]

ABT_task_revive(p, w) == ABT_thread_revive(p, w)

\* A revive_thread that ignores the native call's return code.
revive_thread_unchecked(p, w) ==
    LET r == ABT_thread_revive(p, w) IN
    [ret |-> r.ret, thrown |-> FALSE,
     nq |-> r.nq, state |-> r.state, armed |-> r.armed]

\* A revive_thread that re-arms and pushes the unit itself, whatever its
\* state.
revive_thread_forced(p, w) ==
    [ret |-> ABT_SUCCESS, thrown |-> FALSE,
     nq |-> ABT_pool_push_basic(p, w),
     state |-> [wState EXCEPT ![w] = "pooled"],
     armed |-> [wArmed EXCEPT ![w] = @ + 1]]

\* pool::revive_thread(t, f): fp = new std::function(f);
\* TL_POOL_ASSERT(ABT_thread_revive(m_pool, forward_work_unit, fp, &t.m_thread))
revive_thread(p, w) ==
    LET r == ABT_thread_revive(p, w) IN
    [ret |-> r.ret, thrown |-> (r.ret # ABT_SUCCESS),
     nq |-> r.nq, state |-> r.state, armed |-> r.armed]

\* pool::revive_task(t, f)
revive_task(p, w) ==
    LET r == ABT_task_revive(p, w) IN
    [ret |-> r.ret, thrown |-> (r.ret # ABT_SUCCESS),
     nq |-> r.nq, state |-> r.state, armed |-> r.armed]

\* auto fp = new std::function<void(void)>(std::forward<F>(f)): one more
\* wrapper on the heap, made for unit w.
new_function(w) == [fpOut EXCEPT ![w] = @ + 1]

\* A forward_work_unit that deletes the wrapper without calling it.
forward_work_unit_skipped(w) ==
    [calls |-> wCalls, out |-> [fpOut EXCEPT ![w] = @ - 1]]

\* pool::forward_work_unit(fp): (*f)(); delete f;
forward_work_unit(w) ==
    [calls |-> [wCalls EXCEPT ![w] = @ + 1],
     out |-> [fpOut EXCEPT ![w] = @ - 1]]

\* ABT_pool_add_sched(pool, sched): a scheduler not in use is pushed into
\* the pool as a unit; one already in use is refused.
ABT_pool_add_sched(p, x) ==
    IF sState[x] = "idle"
    THEN [ret |-> ABT_SUCCESS, nq |-> ABT_pool_push_basic(p, SchedUnit(x))]
    ELSE [ret |-> ABT_ERR_INV_SCHED, nq |-> nq]

\* An add_sched that checks the scheduler but never hands it to the pool.
add_sched_dropped(p, x) ==
    [ret |-> ABT_pool_add_sched(p, x).ret,
     thrown |-> (ABT_pool_add_sched(p, x).ret # ABT_SUCCESS), nq |-> nq]

\* pool::add_sched(sched): ABT_pool_add_sched(m_pool, sched.native_handle()),
\* a pool_exception when it does not return ABT_SUCCESS.
add_sched(p, x) ==
    LET r == ABT_pool_add_sched(p, x) IN
    [ret |-> r.ret, thrown |-> (r.ret # ABT_SUCCESS), nq |-> r.nq]

BuiltIn(p) == poolLive[p] = "live" /\ poolKind[p] \in Kind
Custom(p) == poolLive[p] = "live" /\ poolKind[p] = "custom"

\* make_thread(f) / make_task(f) on pool p.
LMake(p, w, ty) ==
    LET r == IF ty = "task" THEN make_task(p, w) ELSE make_thread(p, w) IN
    /\ BuiltIn(p)
    /\ wState[w] = "none"
    /\ \A v \in Work : v < w => wState[v] # "none"
    /\ nq' = r.nq
    /\ wKind' = [wKind EXCEPT ![w] = r.kind]
    /\ wMade' = [wMade EXCEPT ![w] = ty]
    /\ wState' = [wState EXCEPT ![w] = "pooled"]
    /\ wArmed' = [wArmed EXCEPT ![w] = 1]
    /\ last' = [NoOp EXCEPT !.op = "make", !.pool = p, !.unit = w]
    /\ UNCHANGED <<wCalls, wRunner, schedStack, sState>>
    /\ fpOut' = new_function(w)

\* revive_thread(t, g) / revive_task(t, g) on pool p, for a thread or task
\* object the caller holds.
LRevive(p, w) ==
    LET r == IF wKind[w] = "task" THEN revive_task(p, w)
                                  ELSE revive_thread(p, w) IN
    /\ BuiltIn(p)
    /\ wState[w] # "none"
    /\ wArmed[w] < MaxArm
    /\ fpOut[w] < MaxWrappers
    /\ nq' = r.nq
    /\ wState' = r.state
    /\ wArmed' = r.armed
    /\ last' = [NoOp EXCEPT !.op = "revive", !.pool = p, !.unit = w,
                            !.ret = r.ret, !.thrown = r.thrown]
    /\ UNCHANGED <<wKind, wMade, wCalls, wRunner, schedStack, sState>>
    /\ fpOut' = new_function(w)

\* add_sched(sched) on pool p.
LAddSched(p, x) ==
    LET r == add_sched(p, x) IN
    /\ BuiltIn(p)
    /\ nq' = r.nq
    /\ sState' = IF r.thrown THEN sState ELSE [sState EXCEPT ![x] = "queued"]
    /\ last' = [NoOp EXCEPT !.op = "add_sched", !.pool = p,
                            !.unit = SchedUnit(x), !.ret = r.ret,
                            !.thrown = r.thrown]
    /\ UNCHANGED <<wKind, wMade, wState, wArmed, wCalls, wRunner, schedStack>>
    /\ UNCHANGED fpOut

\* The running scheduler pops the pool and gets a thread or task: it runs
\* it.  A unit run for the first time since it was armed enters
\* forward_work_unit; a ULT that had yielded or blocked goes on.
LRunUnit(p) ==
    LET r == pop_basic(p)
        w == r.unit IN
    /\ BuiltIn(p)
    /\ Idle
    /\ r.unit # NullUnit
    /\ ~IsSched(r.unit)
    /\ nq' = r.nq
    /\ wState' = [wState EXCEPT ![w] = "running"]
    /\ wRunner' = [wRunner EXCEPT ![w] = Top(schedStack)]
    /\ wCalls' = IF wState[w] = "pooled" THEN forward_work_unit(w).calls ELSE wCalls
    /\ last' = NoOp
    /\ UNCHANGED <<wKind, wMade, wArmed, schedStack, sState>>
    /\ UNCHANGED fpOut

\* The running scheduler pops the pool and gets a scheduler: that scheduler
\* becomes the running one.
LRunSched(p) ==
    LET r == pop_basic(p) IN
    /\ BuiltIn(p)
    /\ Idle
    /\ r.unit # NullUnit
    /\ IsSched(r.unit)
    /\ nq' = r.nq
    /\ schedStack' = Append(schedStack, SchedOf(r.unit))
    /\ sState' = [sState EXCEPT ![SchedOf(r.unit)] = "running"]
    /\ last' = NoOp
    /\ UNCHANGED <<wKind, wMade, wState, wArmed, wCalls, wRunner>>
    /\ UNCHANGED fpOut

\* The running ULT yields: it goes back into its pool.
LYield(p, w) ==
    /\ BuiltIn(p)
    /\ wState[w] = "running"
    /\ wKind[w] = "thread"
    /\ nq' = ABT_pool_push_basic(p, w)
    /\ wState' = [wState EXCEPT ![w] = "ready"]
    /\ last' = NoOp
    /\ UNCHANGED <<wKind, wMade, wArmed, wCalls, wRunner, schedStack, sState>>
    /\ UNCHANGED fpOut

\* The running ULT blocks.
LBlock(w) ==
    /\ wState[w] = "running"
    /\ wKind[w] = "thread"
    /\ wState' = [wState EXCEPT ![w] = "blocked"]
    /\ last' = NoOp
    /\ UNCHANGED nq
    /\ UNCHANGED <<wKind, wMade, wArmed, wCalls, wRunner, schedStack, sState>>
    /\ UNCHANGED fpOut

\* A blocked ULT is made ready: it goes back into its pool.
LUnblock(p, w) ==
    /\ BuiltIn(p)
    /\ wState[w] = "blocked"
    /\ nq' = ABT_pool_push_basic(p, w)
    /\ wState' = [wState EXCEPT ![w] = "ready"]
    /\ last' = NoOp
    /\ UNCHANGED <<wKind, wMade, wArmed, wCalls, wRunner, schedStack, sState>>
    /\ UNCHANGED fpOut

\* The callable returns, forward_work_unit deletes the wrapper and returns,
\* and the unit terminates.
LFinish(w) ==
    /\ wState[w] = "running"
    /\ wState' = [wState EXCEPT ![w] = "joined"]
    /\ last' = NoOp
    /\ UNCHANGED nq
    /\ UNCHANGED <<wKind, wMade, wArmed, wCalls, wRunner, schedStack, sState>>
    /\ fpOut' = forward_work_unit(w).out

\* The running scheduler, one that was pushed into a pool, yields: it goes
\* back into the pool and the scheduler below it runs again.
LSchedYield(p) ==
    /\ BuiltIn(p)
    /\ Idle
    /\ Len(schedStack) > 1
    /\ nq' = ABT_pool_push_basic(p, SchedUnit(Top(schedStack)))
    /\ sState' = [sState EXCEPT ![Top(schedStack)] = "queued"]
    /\ schedStack' = Front(schedStack)
    /\ last' = NoOp
    /\ UNCHANGED <<wKind, wMade, wState, wArmed, wCalls, wRunner>>
    /\ UNCHANGED fpOut

\* The running scheduler, one that was pushed into a pool, finishes or
\* exits.
LSchedFinish ==
    /\ Idle
    /\ Len(schedStack) > 1
    /\ sState' = [sState EXCEPT ![Top(schedStack)] = "done"]
    /\ schedStack' = Front(schedStack)
    /\ last' = NoOp
    /\ UNCHANGED nq
    /\ UNCHANGED <<wKind, wMade, wState, wArmed, wCalls, wRunner>>
    /\ UNCHANGED fpOut

\* ================================================ unit handle round trip
VARIABLES
    given         \* [Units -> handle]  the native handle each unit was built from

InitGiven == given = [u \in Units |-> NullNative]

\* ==================================================== access of a pool
MaxAccessUnits == 1
AccessUnits == 1..MaxAccessUnits

VARIABLES
    accessAt      \* [Pools -> access pattern the pool was created with]

InitAccess == accessAt = [p \in Pools |-> "none"]

\* A get_access that answers with the most permissive pattern.
get_access_mpmc(p) == "mpmc"

\* pool::get_access(): TL_POOL_ASSERT(ABT_pool_get_access(m_pool, &a));
\* return (access)a;
get_access(p) == poolAccess[p]

\* ======================================================= specifications
extVars == <<given, lifeVars, accessAt>>

vars == <<poolVars, unitVars, obsVars, ownVars, fifoVars, extVars>>

Init == InitPools /\ InitUnits /\ InitObs /\ InitOwn /\ InitFifo /\ InitGiven /\ InitLife /\ InitAccess

SetDataRet == {ABT_SUCCESS, ABT_ERR_OTHER}

Next ==
    \/ \E p \in Pools, r \in SetDataRet :
          CreateCustom(p, r) /\ UNCHANGED <<logVars, ownVars, fifoVars, extVars>>
    \/ \E p \in Pools : Destroy(p) /\ UNCHANGED <<logVars, ownVars, fifoVars, extVars>>
    \/ \E p \in Pools, u \in SchedUnits, ty \in {"thread", "task"} :
          UCreate(p, u, ty, u) /\ UNCHANGED <<logVars, ownVars, fifoVars, extVars>>
    \/ \E u \in SchedUnits : UFree(u) /\ UNCHANGED <<logVars, ownVars, fifoVars, extVars>>
    \/ \E p \in Pools, u \in SchedUnits : Push(p, u) /\ UNCHANGED <<logVars, ownVars, fifoVars, extVars>>
    \/ \E p \in Pools : Pop(p) /\ UNCHANGED <<logVars, ownVars, fifoVars, extVars>>
    \/ \E p \in Pools, u \in SchedUnits : Remove(p, u) /\ UNCHANGED <<logVars, ownVars, fifoVars, extVars>>
    \/ \E u \in SchedUnits : RunUnit(u) /\ UNCHANGED <<logVars, ownVars, fifoVars, extVars>>
    \/ \E u \in SchedUnits : Yield(u) /\ UNCHANGED <<logVars, ownVars, fifoVars, extVars>>
    \/ \E u \in SchedUnits : Suspend(u) /\ UNCHANGED <<logVars, ownVars, fifoVars, extVars>>
    \/ \E u \in SchedUnits : Resume(u) /\ UNCHANGED <<logVars, ownVars, fifoVars, extVars>>
    \/ \E u \in SchedUnits, q \in Pools :
          MigrateBegin(u, q) /\ UNCHANGED <<logVars, ownVars, fifoVars, extVars>>
    \/ \E u \in SchedUnits : MigrateEnd(u) /\ UNCHANGED <<logVars, ownVars, fifoVars, extVars>>
    \/ \E u \in SchedUnits : Finish(u) /\ UNCHANGED <<logVars, ownVars, fifoVars, extVars>>

Spec == Init /\ [][Next]_vars

NextOwn ==
    \/ \E h \in Handles, p \in Pools, a \in Access, k \in Kind :
          HCreateBuiltin(h, p, a, k) /\ UNCHANGED <<unitVars, obsVars, fifoVars, extVars>>
    \/ \E h \in Handles, p \in Pools, r \in SetDataRet :
          HCreateCustom(h, p, r) /\ UNCHANGED <<unitVars, obsVars, fifoVars, extVars>>
    \/ \E d \in Handles, s \in Handles :
          HCopy(d, s) /\ UNCHANGED <<unitVars, obsVars, fifoVars, extVars>>
    \/ \E d \in Handles, s \in Handles, o \in BOOLEAN :
          HMoveConstruct(d, s, o) /\ UNCHANGED <<unitVars, obsVars, fifoVars, extVars>>
    \/ \E d \in Handles, s \in Handles :
          HMoveAssign(d, s) /\ UNCHANGED <<unitVars, obsVars, fifoVars, extVars>>
    \/ \E h \in Handles : HScopeExit(h) /\ UNCHANGED <<unitVars, obsVars, fifoVars, extVars>>
    \/ \E p \in Pools : HStale(p) /\ UNCHANGED <<unitVars, obsVars, fifoVars, extVars>>

SpecOwn == Init /\ [][NextOwn]_vars

\* The queue scenario: units are created, pushed, popped and removed, and
\* the order of the pushes and pops of every pool is recorded.
RECURSIVE Pushes(_)
Pushes(S) ==
    IF S = {} THEN 0
    ELSE LET x == CHOOSE x \in S : TRUE IN Len(pushLog[x]) + Pushes(S \ {x})

LogPush(p, u) ==
    /\ pushLog' = IF last'.thrown THEN pushLog
                  ELSE [pushLog EXCEPT ![p] = Append(@, u)]
    /\ UNCHANGED <<popLog, removedAny>>

LogPop(p) ==
    /\ popLog' = IF last'.unit = NullUnit THEN popLog
                 ELSE [popLog EXCEPT ![p] = Append(@, last'.unit)]
    /\ UNCHANGED <<pushLog, removedAny>>

LogRemove(p) ==
    /\ removedAny' = IF last'.thrown THEN removedAny
                     ELSE [removedAny EXCEPT ![p] = TRUE]
    /\ UNCHANGED <<pushLog, popLog>>

NextQueue ==
    \/ \E p \in Pools :
          CreateCustom(p, ABT_SUCCESS) /\ UNCHANGED <<logVars, ownVars, fifoVars, extVars>>
    \/ \E p \in Pools, u \in Units :
          UCreate(p, u, "thread", u) /\ UNCHANGED <<logVars, ownVars, fifoVars, extVars>>
    \/ \E p \in Pools, u \in Units :
          /\ Pushes(Pools) < MaxLog
          /\ Push(p, u) /\ LogPush(p, u) /\ UNCHANGED <<ownVars, fifoVars, extVars>>
    \/ \E p \in Pools : Pop(p) /\ LogPop(p) /\ UNCHANGED <<ownVars, fifoVars, extVars>>
    \/ \E p \in Pools, u \in Units :
          Remove(p, u) /\ LogRemove(p) /\ UNCHANGED <<ownVars, fifoVars, extVars>>

SpecQueue == Init /\ [][NextQueue]_vars

NextFifo ==
    \/ \E p \in Pools, a \in Access, k \in Kind :
          FCreate(p, a, k) /\ UNCHANGED <<unitVars, obsVars, ownVars, extVars>>
    \/ \E p \in Pools, i \in Producers :
          FPush(p, i) /\ UNCHANGED <<unitVars, obsVars, ownVars, extVars>>
    \/ \E p \in Pools : FPop(p) /\ UNCHANGED <<unitVars, obsVars, ownVars, extVars>>

SpecFifo == Init /\ [][NextFifo]_vars

\* The runtime wraps native threads and tasks in units; the units then go
\* through the pools.
NextUnit ==
    \/ \E p \in Pools :
          CreateCustom(p, ABT_SUCCESS) /\ UNCHANGED <<logVars, ownVars, fifoVars, extVars>>
    \/ \E p \in Pools, u \in SchedUnits, ty \in {"thread", "task"}, t \in NativeHandles :
          /\ UCreate(p, u, ty, t)
          /\ given' = [given EXCEPT ![u] = t]
          /\ UNCHANGED <<logVars, ownVars, fifoVars, lifeVars, accessAt>>
    \/ \E p \in Pools, u \in SchedUnits :
          Push(p, u) /\ UNCHANGED <<logVars, ownVars, fifoVars, extVars>>
    \/ \E p \in Pools : Pop(p) /\ UNCHANGED <<logVars, ownVars, fifoVars, extVars>>

SpecUnit == Init /\ [][NextUnit]_vars

\* Everything a pool leaves alone when only its queue changes.
queueFrame == <<poolLive, poolData, numBlocked, numMigr, pAlloc, pCons, pDes,
                pq, poolAccess, poolKind, staleData>>

lifeFrame == <<queueFrame, unitVars, logVars, ownVars, fifoVars, given, accessAt>>

\* One execution stream with a private built-in pool: threads and tasks
\* are made, run, revived; schedulers are pushed into the pool.
NextLife ==
    \/ \E p \in Pools, k \in Kind :
          FCreate(p, "priv", k) /\ UNCHANGED <<unitVars, obsVars, ownVars, extVars>>
    \/ \E p \in Pools, w \in Work, ty \in {"thread", "task"} :
          LMake(p, w, ty) /\ UNCHANGED lifeFrame
    \/ \E p \in Pools, w \in Work : LRevive(p, w) /\ UNCHANGED lifeFrame
    \/ \E p \in Pools, x \in Scheds : LAddSched(p, x) /\ UNCHANGED lifeFrame
    \/ \E p \in Pools : LRunUnit(p) /\ UNCHANGED lifeFrame
    \/ \E p \in Pools : LRunSched(p) /\ UNCHANGED lifeFrame
    \/ \E p \in Pools, w \in Work : LYield(p, w) /\ UNCHANGED lifeFrame
    \/ \E w \in Work : LBlock(w) /\ UNCHANGED lifeFrame
    \/ \E p \in Pools, w \in Work : LUnblock(p, w) /\ UNCHANGED lifeFrame
    \/ \E w \in Work : LFinish(w) /\ UNCHANGED lifeFrame
    \/ \E p \in Pools : LSchedYield(p) /\ UNCHANGED lifeFrame
    \/ LSchedFinish /\ UNCHANGED lifeFrame

SpecLife == Init /\ [][NextLife]_vars

\* Pools of both kinds are created and then used in every way the pool
\* class offers: push, pop and remove on a custom pool; make_thread,
\* make_task, revive, add_sched and the scheduler's pops on a built-in one.
accessFrame == <<logVars, ownVars, fifoVars, given, lifeVars, accessAt>>

NextAccess ==
    \/ \E p \in Pools, a \in Access, k \in Kind :
          /\ FCreate(p, a, k)
          /\ accessAt' = [accessAt EXCEPT ![p] = a]
          /\ UNCHANGED <<unitVars, obsVars, ownVars, given, lifeVars>>
    \/ \E p \in Pools :
          /\ CreateCustom(p, ABT_SUCCESS)
          /\ accessAt' = [accessAt EXCEPT ![p] = P_access_type]
          /\ UNCHANGED <<logVars, ownVars, fifoVars, given, lifeVars>>
    \/ \E p \in Pools, u \in AccessUnits, ty \in {"thread", "task"} :
          Custom(p) /\ UCreate(p, u, ty, u) /\ UNCHANGED accessFrame
    \/ \E p \in Pools, u \in AccessUnits :
          Custom(p) /\ Push(p, u) /\ UNCHANGED accessFrame
    \/ \E p \in Pools : Custom(p) /\ Pop(p) /\ UNCHANGED accessFrame
    \/ \E p \in Pools, u \in AccessUnits :
          Custom(p) /\ Remove(p, u) /\ UNCHANGED accessFrame
    \/ \E p \in Pools, w \in AccessUnits, ty \in {"thread", "task"} :
          LMake(p, w, ty) /\ UNCHANGED lifeFrame
    \/ \E p \in Pools, w \in AccessUnits : LRevive(p, w) /\ UNCHANGED lifeFrame
    \/ \E p \in Pools, x \in Scheds : LAddSched(p, x) /\ UNCHANGED lifeFrame
    \/ \E p \in Pools : LRunUnit(p) /\ UNCHANGED lifeFrame
    \/ \E p \in Pools : LRunSched(p) /\ UNCHANGED lifeFrame
    \/ \E w \in AccessUnits : LFinish(w) /\ UNCHANGED lifeFrame
    \/ LSchedFinish /\ UNCHANGED lifeFrame

SpecAccess == Init /\ [][NextAccess]_vars

\* Pools of both kinds are created, some creations failing, while the
\* pools already there hold units and schedulers.
createFrame == <<logVars, ownVars, fifoVars, extVars>>

NextCreate ==
    \/ \E p \in Pools, a \in Access, k \in Kind, r \in CreateBasicRet :
          CreateBuiltin(p, a, k, r) /\ UNCHANGED <<unitVars, createFrame>>
    \/ \E p \in Pools, r \in SetDataRet :
          CreateCustom(p, r) /\ UNCHANGED createFrame
    \/ \E p \in Pools, u \in AccessUnits, ty \in {"thread", "task"} :
          Custom(p) /\ UCreate(p, u, ty, u) /\ UNCHANGED createFrame
    \/ \E p \in Pools, u \in AccessUnits :
          Custom(p) /\ Push(p, u) /\ UNCHANGED createFrame
    \/ \E p \in Pools, w \in AccessUnits, ty \in {"thread", "task"} :
          LMake(p, w, ty) /\ UNCHANGED lifeFrame
    \/ \E p \in Pools, x \in Scheds : LAddSched(p, x) /\ UNCHANGED lifeFrame
    \/ \E p \in Pools : LRunSched(p) /\ UNCHANGED lifeFrame

SpecCreate == Init /\ [][NextCreate]_vars

\* Custom pools are used through the adapter before and after their
\* teardown.
NextLookup ==
    \/ \E p \in Pools :
          CreateCustom(p, ABT_SUCCESS) /\ UNCHANGED createFrame
    \/ \E p \in Pools : Destroy(p) /\ UNCHANGED createFrame
    \/ \E p \in Pools : DestroyAgain(p) /\ UNCHANGED createFrame
    \/ \E p \in Pools, u \in SchedUnits, ty \in {"thread", "task"} :
          UCreate(p, u, ty, u) /\ UNCHANGED createFrame
    \/ \E p \in Pools : GetSize(p) /\ UNCHANGED createFrame
    \/ \E p \in Pools, u \in SchedUnits : Push(p, u) /\ UNCHANGED createFrame
    \/ \E p \in Pools : Pop(p) /\ UNCHANGED createFrame
    \/ \E p \in Pools, u \in SchedUnits : Remove(p, u) /\ UNCHANGED createFrame

SpecLookup == Init /\ [][NextLookup]_vars

\* =============================================================== claims
Range(q) == {q[i] : i \in DOMAIN q}

Settled(u) ==
    \/ uState[u] = "freed"
    \/ uState[u] = "pooled" /\ poolLive[uPool[u]] = "freed"

Pooled(p) == {u \in Units : uState[u] = "pooled" /\ uPool[u] = p}

UnitsOf(p) == {u \in Units : uPool[u] = p}

C5_MembershipFollowsPushPop ==
    /\ (last.op = "push" /\ ~last.thrown) => u_is_in_pool(last.unit)
    /\ (last.op \in {"pop", "remove"} /\ ~last.thrown /\ last.unit # NullUnit)
           => ~u_is_in_pool(last.unit)

C5_Witness ==
    /\ last.op = "pop"
    /\ ~last.thrown
    /\ last.unit # NullUnit
    /\ uState[last.unit] = "popped"
    /\ ~u_is_in_pool(last.unit)

\* ---- C6 ----------------------------------------------------------------
\* Pool p's container exists and holds unit u.
MemberOf(p, u) == p \in pAlloc /\ u \in Range(pq[p])

C7_PopsInPushOrder ==
    \A p \in Pools :
        (poolLive[p] = "live" /\ ~removedAny[p]) =>
            /\ popLog[p] \o pq[p] = pushLog[p]
            /\ size(p) = Len(pushLog[p]) - Len(popLog[p])

C7_Witness ==
    \E p \in Pools :
        /\ poolLive[p] = "live"
        /\ pushLog[p] = <<1, 2, 3>>
        /\ popLog[p] = <<1, 2, 3>>
        /\ size(p) = 0

\* ---- C10 ---------------------------------------------------------------
Blocked(p) == {u \in Units : uState[u] = "blocked" /\ uPool[u] = p}
Migrating(p) == {u \in Units : uState[u] = "migrating" /\ uPool[u] = p}

\* C10 (as stated): size() <= total_size(), and the difference is the
\* number of suspended (blocked) units of the pool.
C10_DifferenceIsBlocked ==
    \A p \in Pools :
        poolLive[p] = "live" =>
            /\ size(p) <= total_size(p)
            /\ total_size(p) - size(p) = Cardinality(Blocked(p))

\* C10 (amended): size() <= total_size(), and the difference is the number
\* of blocked units of the pool plus the number of units migrating to it.
C10_DifferenceIsBlockedAndMigrating ==
    \A p \in Pools :
        poolLive[p] = "live" =>
            /\ size(p) <= total_size(p)
            /\ total_size(p) - size(p)
                   = Cardinality(Blocked(p)) + Cardinality(Migrating(p))

C10_Witness ==
    \E p \in Pools :
        /\ poolLive[p] = "live"
        /\ Blocked(p) # {}
        /\ Migrating(p) # {}
        /\ total_size(p) - size(p) = 2

\* ---- C3 ----------------------------------------------------------------
Created(p) == poolLive[p] \in {"live", "freed"}

NoHandleInScope == \A h \in Handles : hKind[h] \in {"unused", "gone"}

\* C3: whatever the sequence of creations, handle copies, move
\* constructions, move assignments and scope exits, a native pool is torn
\* down by exactly one native free call (never two, and one once every
\* handle has left scope), and the P instance of a custom pool is destroyed
\* and deallocated exactly once by p_free.
C3_ExactlyOneTeardown ==
    \A p \in Pools :
        /\ freeCalls[p] <= 1
        /\ pDes[p] <= 1
        /\ (Created(p) /\ NoHandleInScope) =>
               /\ freeCalls[p] = 1
               /\ poolKind[p] = "custom" => (pDes[p] = 1 /\ p \notin pAlloc)

\* ---- C8 ----------------------------------------------------------------
SingleProducer == \A i \in Producers : i # 1 => fPushed[i] = 0

\* C8: on a built-in pool of kind fifo used by one producer and one
\* consumer, the units popped so far followed by the units still queued
\* are the units pushed, in push order: pop returns them in push order.
C8_FifoPopOrder ==
    \A p \in Pools :
        (poolLive[p] = "live" /\ poolKind[p] = "fifo" /\ SingleProducer) =>
            fPopLog \o nq[p] = fPushLog

C8_Witness ==
    \E p \in Pools :
        /\ poolLive[p] = "live"
        /\ poolKind[p] = "fifo"
        /\ poolAccess[p] = "spsc"
        /\ fPushed[1] = PerProducer
        /\ Len(fPopLog) = PerProducer
        /\ fPopLog = fPushLog

\* ---- C9 ----------------------------------------------------------------
AllUnits == {UnitOf(i, k) : i \in Producers, k \in 1..PerProducer}

PushedUnits == UNION {{UnitOf(i, k) : k \in 1..fPushed[i]} : i \in Producers}

NoDuplicates(q) == \A i, j \in DOMAIN q : q[i] = q[j] => i = j

\* C9: on an MPMC built-in FIFO pool fed by concurrent producers, the
\* consumer never receives a unit twice, every pushed unit is either
\* received or still queued, and once every producer has pushed its
\* PerProducer units and the pool is drained the consumer has received
\* NumProducers * PerProducer units: each pushed unit exactly once.
C9_NoneLostNoneDuplicated ==
    \A p \in Pools :
        (poolLive[p] = "live" /\ poolKind[p] = "fifo" /\ poolAccess[p] = "mpmc") =>
            /\ NoDuplicates(fPopLog \o nq[p])
            /\ Range(fPopLog \o nq[p]) = PushedUnits
            /\ ((\A i \in Producers : fPushed[i] = PerProducer) /\ nq[p] = <<>>) =>
                   /\ Len(fPopLog) = NumProducers * PerProducer
                   /\ Range(fPopLog) = AllUnits

\* Both producers pushed everything, their pushes interleaved, and the
\* consumer drained the pool.
C9_Witness ==
    \E p \in Pools :
        /\ poolLive[p] = "live"
        /\ poolKind[p] = "fifo"
        /\ poolAccess[p] = "mpmc"
        /\ \A i \in Producers : fPushed[i] = PerProducer
        /\ nq[p] = <<>>
        /\ Len(fPopLog) = NumProducers * PerProducer
        /\ fPushLog[1] = UnitOf(2, 1)
        /\ fPushLog[2] = UnitOf(1, 1)

\* ---- C13 ---------------------------------------------------------------
\* C13: for every native thread handle t, the unit built by
\* u_create_from_thread(t) gives t back through u_get_thread, and the unit
\* built by u_create_from_task(t) gives t back through u_get_task, for as
\* long as the unit exists.
C13_HandleRoundTrip ==
    \A u \in uAlloc :
        /\ u_get_type(u) = "thread" => u_get_thread(u) = given[u]
        /\ u_get_type(u) = "task" => u_get_task(u) = given[u]

\* Two units built from different handles, one of each type, the thread
\* unit already pushed and popped again.
C13_Witness ==
    \E u, v \in uAlloc :
        /\ u_get_type(u) = "thread" /\ u_get_type(v) = "task"
        /\ given[u] # given[v]
        /\ uState[u] = "popped"
        /\ u_get_thread(u) = given[u]
        /\ u_get_task(v) = given[v]

\* ---- C14 ---------------------------------------------------------------
\* The outcome of one push, pop or remove made through the adapter on the
\* live pool p equals the outcome of the same call made on p's P instance.
ForwardsTo(p) ==
    LET i == poolData[p] IN
    /\ ~last'.thrown
    /\ last'.calledP
    /\ last'.op = "push" =>
           /\ pq' = P_push(i, last'.unit).pq
           /\ uInPool' = P_push(i, last'.unit).inPool
    /\ last'.op = "pop" =>
           /\ last'.unit = P_pop(i).unit
           /\ pq' = P_pop(i).pq
           /\ uInPool' = P_pop(i).inPool
    /\ last'.op = "remove" =>
           /\ last'.ret = ABT_SUCCESS
           /\ pq' = P_remove(i, last'.unit).pq
           /\ uInPool' = P_remove(i, last'.unit).inPool

\* C14: the adapter is a pure forwarding layer: every push, pop and remove
\* made through the adapter entry points on a live custom pool has the
\* result and the effect of the same call on the pool's P instance, the size
\* seen through the adapter is P::get_size(), and a pop on an empty pool
\* returns what P::pop returns (a null unit) without an exception.
C14_AdapterForwards ==
    [][\A p \in Pools :
          poolLive[p] = "live" =>
              /\ size(p) = P_get_size(poolData[p])
              /\ (last'.op \in {"push", "pop", "remove"} /\ last'.pool = p)
                     => ForwardsTo(p)]_vars

\* A pop on an empty live pool went through P::pop and returned its null
\* unit.
C14_Witness ==
    /\ last.op = "pop"
    /\ poolLive[last.pool] = "live"
    /\ last.calledP
    /\ ~last.thrown
    /\ last.unit = NullUnit
    /\ size(last.pool) = 0

\* ---- C11 ---------------------------------------------------------------
\* C11: revive_thread / revive_task on a unit that is not joined (still
\* pooled, running, ready or blocked) fails with an exception, and the unit
\* is neither re-armed nor pushed again.
C11_ReviveOfLiveUnitFails ==
    [][\A w \in Work :
          (last'.op = "revive" /\ last'.unit = w /\ wState[w] # "joined") =>
              /\ last'.thrown
              /\ last'.ret # ABT_SUCCESS
              /\ wArmed'[w] = wArmed[w]
              /\ wState'[w] = wState[w]
              /\ nq' = nq]_vars

\* A revive of a running ULT was refused.
C11_Witness ==
    /\ last.op = "revive"
    /\ last.thrown
    /\ wKind[last.unit] = "thread"
    /\ wState[last.unit] = "running"
    /\ wArmed[last.unit] = 1

\* ---- C12 ---------------------------------------------------------------
\* C12: a joined unit revived with a callable g and run by a scheduler
\* executes g exactly once and is joined again: each callable a unit was
\* armed with is called once, never twice, and by the time the unit is
\* joined every one of them has been called.
C12_ReviveRunsOnce ==
    \A w \in Work :
        /\ wCalls[w] <= wArmed[w]
        /\ wArmed[w] - wCalls[w] <= 1
        /\ wState[w] = "joined" => wCalls[w] = wArmed[w]
        /\ wState[w] \in {"running", "ready", "blocked"} => wCalls[w] = wArmed[w]
        /\ wState[w] = "pooled" => wCalls[w] = wArmed[w] - 1

\* A unit made, run, joined, revived, run and joined again.
C12_Witness ==
    \E w \in Work :
        /\ wState[w] = "joined"
        /\ wArmed[w] = 2
        /\ wCalls[w] = 2

\* ---- C17 ---------------------------------------------------------------
\* The state of the unit in the terms of the unit state machine: a ULT that
\* yielded or blocked is Suspended.
LifeState(st) ==
    CASE st = "none" -> "Created"
      [] st = "pooled" -> "Pooled"
      [] st = "running" -> "Running"
      [] st \in {"ready", "blocked"} -> "Suspended"
      [] st = "joined" -> "Joined"

C18_TasksRunToCompletion ==
    /\ [](\A w \in Work :
            /\ wMade[w] = "task" => wState[w] \notin {"ready", "blocked"}
            /\ wState[w] \in {"ready", "blocked"} => wKind[w] = "thread")
    /\ [][\A w \in Work :
            (wMade[w] = "task" /\ wState[w] = "running")
                => wState'[w] \in {"running", "joined"}]_vars

\* A task ran to completion while a ULT of the same pool was suspended.
C18_Witness ==
    \E w, v \in Work :
        /\ wMade[w] = "task" /\ wKind[w] = "task" /\ wState[w] = "joined"
        /\ wMade[v] = "thread" /\ wState[v] \in {"ready", "blocked"}

\* ---- C16 ---------------------------------------------------------------
\* C16: a scheduler pushed by add_sched sits in the pool; when the running
\* scheduler pops it, it becomes the running scheduler and stays it until
\* it yields or finishes; every unit is run by the scheduler running at
\* that time, so the scheduler below runs no unit in between.
C16_PushedSchedulerTakesOver ==
    /\ []((last.op = "add_sched" /\ ~last.thrown) =>
             \E i \in DOMAIN nq[last.pool] : nq[last.pool][i] = last.unit)
    /\ [](\A x \in Scheds :
             sState[x] = "running" <=> (\E i \in DOMAIN schedStack : schedStack[i] = x))
    /\ [][/\ \A p \in Pools :
                (BuiltIn(p) /\ Idle /\ nq[p] # <<>> /\ IsSched(Head(nq[p]))
                    /\ nq'[p] = Tail(nq[p]))
                    => Top(schedStack') = SchedOf(Head(nq[p]))
          /\ Top(schedStack') # Top(schedStack) =>
                \/ schedStack = Front(schedStack')
                \/ /\ schedStack' = Front(schedStack)
                   /\ sState'[Top(schedStack)] \in {"queued", "done"}
          /\ \A w \in Work :
                (wState[w] # "running" /\ wState'[w] = "running")
                    => (wRunner'[w] = Top(schedStack) /\ schedStack' = schedStack)
        ]_vars

\* The pushed scheduler is running a unit; the primary scheduler is below
\* it.
C16_Witness ==
    \E w \in Work :
        /\ Len(schedStack) = 2
        /\ wState[w] = "running"
        /\ wRunner[w] = Top(schedStack)
        /\ Top(schedStack) # MainSched

\* ---- C15 ---------------------------------------------------------------
\* C15: the access pattern of a pool is fixed at creation, for a custom pool
\* to P::access_type, and get_access() returns that value for as long as
\* the pool lives, whatever push, pop, remove, add_sched, make_thread,
\* make_task and revive operations were made on it.
C15_AccessFixedAtCreation ==
    \A p \in Pools :
        poolLive[p] = "live" =>
            /\ get_access(p) = accessAt[p]
            /\ poolKind[p] = "custom" => get_access(p) = P_access_type

\* A built-in pool created private on which a unit was made, run and
\* revived, next to a custom pool a unit was pushed into.
C15_Witness ==
    \E p, q \in Pools :
        /\ poolLive[p] = "live" /\ poolKind[p] = "fifo_wait"
        /\ accessAt[p] = "priv"
        /\ get_access(p) = "priv"
        /\ \E w \in Work : wArmed[w] = 2 /\ wState[w] = "pooled"
        /\ poolLive[q] = "live" /\ poolKind[q] = "custom"
        /\ pq[q] # <<>>

\* ---- C19 ---------------------------------------------------------------
\* What belongs to pool q.
PoolState(q) ==
    <<poolLive[q], poolData[q], poolAccess[q], poolKind[q], nq[q], pq[q],
      numBlocked[q], numMigr[q]>>

C20_InitFailureLeavesNoInstance ==
    \A p \in Pools :
        poolLive[p] = "failed" =>
            /\ (last.op = "create" /\ last.pool = p) => last.ret # ABT_SUCCESS
            /\ p \notin pAlloc

\* ---- C21 ---------------------------------------------------------------
\* C21: whenever the lookup of the pool's state fails, p_get_size, p_push,
\* p_pop, p_remove and p_free call no method of P and leave the pool
\* allocator, the P instances and their containers alone; p_get_size,
\* p_push and p_pop raise a pool exception, p_remove and p_free return the
\* lookup's error code.
C21_LookupFailureTouchesNothing ==
    [][(last'.op \in {"size", "push", "pop", "remove", "destroy"}
            /\ last'.lookup # ABT_SUCCESS) =>
          /\ ~last'.calledP
          /\ pAlloc' = pAlloc /\ pCons' = pCons /\ pDes' = pDes
          /\ pq' = pq /\ uInPool' = uInPool
          /\ last'.op \in {"size", "push", "pop"} => last'.thrown
          /\ last'.op \in {"remove", "destroy"} =>
                (last'.ret = last'.lookup /\ last'.ret # ABT_SUCCESS)]_vars

\* p_free ran on a pool torn down before, a unit still left in it.
C21_Witness ==
    /\ last.op = "destroy"
    /\ last.lookup = ABT_ERR_INV_POOL
    /\ last.ret = ABT_ERR_INV_POOL
    /\ poolLive[last.pool] = "freed"
    /\ \E u \in Units : uState[u] = "pooled" /\ uPool[u] = last.pool

\* ---- C22 ---------------------------------------------------------------
\* C22: every callable wrapper allocated by make_task, make_thread,
\* revive_thread or revive_task is called at most once and deleted exactly
\* once: a unit never has more than its one pending wrapper outstanding,
\* none is deleted twice, and a joined unit has none left, also when a
\* revive call failed.
C22_WrapperFreedExactlyOnce ==
    \A w \in Work :
        /\ wCalls[w] <= wArmed[w]
        /\ fpOut[w] >= 0
        /\ fpOut[w] <= 1
        /\ wState[w] = "joined" => fpOut[w] = 0
        /\ wState[w] \in {"pooled", "running", "ready", "blocked"} => fpOut[w] = 1

====
